---- MODULE Spec2Model ----
(***************************************************************************)
(* Model of the notebooks of Secure_private_AI_scholarship:                *)
(*   - differential_privacy/intro_differential_privacy: the leave-one-out  *)
(*     construction of parallel databases from one boolean vector;         *)
(*   - Pytorch/Part 3 - Training Neural Networks: the autograd example,    *)
(*     the single training step and the training loop;                     *)
(*   - the tensor introduction appended to that file: the single neuron    *)
(*     and the NumPy bridge.                                               *)
(* A tensor is a record [shape, data] with data in row-major order.        *)
(* Python indices are 0-based; At(v, j) reads element j of a sequence.     *)
(***************************************************************************)
EXTENDS Integers, Sequences, FiniteSets, TLC

\* ------------------------------------------------------------------ bounds
\* number of users in ori_vec (5000 in the notebook)
NumUsers == 4

\* number of batches the trainloader yields per pass (938 for MNIST at 64)
NumBatches == 2

\* entries of the autograd example's x lie in -MaxX .. MaxX
MaxX == 1

\* entries of features, weights and bias lie in -1 .. MaxVal
MaxVal == 0

\* entries of the NumPy array a lie in 0 .. MaxA
MaxA == 1

None == "None"

\* the values of names the training notebook has not bound yet
NoOptimizer == [params |-> 0, lr |-> 0]

NoBatch == [batch |-> 0, fetch |-> 0, flat |-> FALSE]

NoOutput == [model |-> 0, steps |-> 0, batch |-> 0, fetch |-> 0]

NoLoss == [of |-> NoOutput, labels |-> 0]

\* x, y, z before the autograd cells have run
NoTensor == [shape |-> <<>>, data |-> <<>>]

\* ------------------------------------------------------- tensor primitives
Min(p, q) == IF p < q THEN p ELSE q

Max(p, q) == IF p > q THEN p ELSE q

At(v, j) == v[j + 1]

RECURSIVE Prod(_)
Prod(s) == IF s = <<>> THEN 1 ELSE Head(s) * Prod(Tail(s))

\* a 1-D tensor holding the sequence d
Vec(d) == [shape |-> <<Len(d)>>, data |-> d]

\* t[start:stop] on a 1-D tensor, with Python's clamping of the two ends
PySlice(t, start, stop) ==
    LET n  == t.shape[1]
        lo == Min(Max(start, 0), n)
        hi == Min(Max(stop, 0), n)
    IN  Vec(SubSeq(t.data, lo + 1, hi))

\* t[start::] on a 1-D tensor
PySliceFrom(t, start) == PySlice(t, start, t.shape[1])

\* torch.cat((a, b), 0) of two 1-D tensors
Cat1D(t1, t2) == Vec(t1.data \o t2.data)

\* the append without unsqueeze(0): the 1-D tensor itself
Unsqueeze0_Missing(t) == t

\* t.unsqueeze(0): a new leading dimension of size 1
Unsqueeze0(t) == [shape |-> <<1>> \o t.shape, data |-> t.data]

RECURSIVE FlatData(_)
FlatData(ts) == IF ts = <<>> THEN <<>> ELSE Head(ts).data \o FlatData(Tail(ts))

RECURSIVE SumDim0(_)
SumDim0(ts) == IF ts = <<>> THEN 0 ELSE Head(ts).shape[1] + SumDim0(Tail(ts))

\* torch.cat(list) along dimension 0 of a non-empty list of tensors
CatList(ts) ==
    [shape |-> <<SumDim0(ts)>> \o Tail(Head(ts).shape), data |-> FlatData(ts)]

\* ------------------------------------------------------------------- state
VARIABLES
    dp_pc,                \* position in the differential-privacy notebook
    ori_vec,              \* the original boolean (uint8) vector
    i,                    \* the index variable of the first cells
    db,                   \* the database built by the first cells
    random_seq_index,     \* the drawn indices
    seq_pos,              \* how many elements of random_seq_index the loop consumed
    seq,                  \* the loop variable
    new_db,               \* the database built in the current iteration
    randomized_db,        \* the list of databases
    randomized_db_torch,  \* the stacked result
    pc,                   \* position in the training notebook
    x,                    \* the autograd example's leaf tensor
    y,                    \* x**2 with its grad_fn
    z,                    \* y.mean() with its grad_fn
    x_grad,               \* x.grad: <<>> is None, <<t>> holds the tensor t
    params,               \* parameter sets of the models built so far
    model,                \* index into params of the model bound to `model`
    optimizer,            \* the optimizer: its parameter set and learning rate
    images,               \* the current batch (images and labels)
    output,               \* the network output (logits / output / out)
    loss,                 \* the current loss
    fetches,              \* how many batches have been drawn from trainloader
    e,                    \* the epoch variable
    trainiter,            \* batches the running pass has not yielded yet
    running_loss,         \* the fetches whose losses the running epoch summed up
    printed,              \* the values printed at the end of the epochs
    t_pc,                 \* position in the tensor introduction
    features,             \* the input features
    weights,              \* the weights of the single neuron
    bias,                 \* its bias
    h,                    \* the linear combination
    f_h,                  \* the neuron's output
    Out,                  \* the values the cells displayed, in order
    mem,                  \* the buffers arrays and tensors keep their data in
    a,                    \* the NumPy array: a reference to a buffer
    b,                    \* the tensor made from it: a reference to a buffer
    raised,               \* the errors the cells ended in, in order
    n_input,              \* number of input units of the multi-layer network
    n_hidden,             \* number of hidden units
    n_output,             \* number of output units
    W1,                   \* weights from the inputs to the hidden layer
    W2,                   \* weights from the hidden layer to the output layer
    B1,                   \* bias of the hidden layer
    B2,                   \* bias of the output layer
    out,                  \* the linear combination of the output layer
    out_h                 \* the network output

dpVars == <<dp_pc, ori_vec, i, db, random_seq_index, seq_pos, seq, new_db,
            randomized_db, randomized_db_torch>>

trainVars == <<pc, x, y, z, x_grad, params, model, optimizer, images, output,
               loss, fetches, e, trainiter, running_loss, printed>>

mlpVars == <<n_input, n_hidden, n_output, W1, W2, B1, B2, out, out_h>>

tensorVars == <<t_pc, features, weights, bias, h, f_h, Out, mem, a, b, raised,
                mlpVars>>

vars == <<dpVars, trainVars, tensorVars>>

notDP == <<trainVars, tensorVars>>

notTrain == <<dpVars, tensorVars>>

notTensor == <<dpVars, trainVars>>

\* the notebooks are separate programs: while one runs the others' variables
\* keep these values
DPIdle ==
    /\ dp_pc = "idle"
    /\ ori_vec = None
    /\ i = None
    /\ db = None
    /\ random_seq_index = None
    /\ seq_pos = 0
    /\ seq = None
    /\ new_db = None
    /\ randomized_db = None
    /\ randomized_db_torch = None

TrainIdle ==
    /\ pc = "idle"
    /\ x = NoTensor
    /\ y = NoTensor
    /\ z = NoTensor
    /\ x_grad = <<>>
    /\ params = <<>>
    /\ model = 0
    /\ optimizer = NoOptimizer
    /\ images = NoBatch
    /\ output = NoOutput
    /\ loss = NoLoss
    /\ fetches = 0
    /\ e = -1
    /\ trainiter = {}
    /\ running_loss = {}
    /\ printed = <<>>


\* -------------------------------------------- differential-privacy notebook
Bits == {0, 1}

UserIdx == 0 .. NumUsers - 1

\* the second slice taken from s instead of s+1: the record is kept
LeaveOut_FromSeq(v, s) == Cat1D(PySlice(v, 0, s), PySliceFrom(v, s))

\* the database with the record at position s left out
LeaveOut(v, s) == Cat1D(PySlice(v, 0, s), PySliceFrom(v, s + 1))

TensorIdle ==
    /\ t_pc = "idle"
    /\ features = None
    /\ weights = None
    /\ bias = None
    /\ h = None
    /\ f_h = None
    /\ Out = <<>>
    /\ mem = <<>>
    /\ a = None
    /\ b = None
    /\ raised = <<>>
    /\ n_input = None
    /\ n_hidden = None
    /\ n_output = None
    /\ W1 = None
    /\ W2 = None
    /\ B1 = None
    /\ B2 = None
    /\ out = None
    /\ out_h = None

DPInit ==
    /\ TrainIdle
    /\ TensorIdle
    /\ dp_pc = "start"
    /\ ori_vec = None
    /\ i = None
    /\ db = None
    /\ random_seq_index = None
    /\ seq_pos = 0
    /\ seq = None
    /\ new_db = None
    /\ randomized_db = None
    /\ randomized_db_torch = None

\* ori_vec = (torch.rand(5000) > 0.5)
DrawOriVec ==
    /\ dp_pc = "start"
    /\ \E d \in [1 .. NumUsers -> Bits] : ori_vec' = Vec(d)
    /\ dp_pc' = "prefix"
    /\ UNCHANGED <<i, db, random_seq_index, seq_pos, seq, new_db,
                   randomized_db, randomized_db_torch>>
    /\ UNCHANGED notDP

\* for i in range(5000): db = ori_vec[0:i]
PrefixLoop ==
    /\ dp_pc = "prefix"
    /\ i' = NumUsers - 1
    /\ db' = PySlice(ori_vec, 0, NumUsers - 1)
    /\ dp_pc' = "first"
    /\ UNCHANGED <<ori_vec, random_seq_index, seq_pos, seq, new_db,
                   randomized_db, randomized_db_torch>>
    /\ UNCHANGED notDP

\* i = 0; db = torch.cat((ori_vec[0:i], ori_vec[i+1::]), 0)
LeaveFirstOut ==
    /\ dp_pc = "first"
    /\ i' = 0
    /\ db' = LeaveOut(ori_vec, 0)
    /\ dp_pc' = "draw"
    /\ UNCHANGED <<ori_vec, random_seq_index, seq_pos, seq, new_db,
                   randomized_db, randomized_db_torch>>
    /\ UNCHANGED notDP

\* random_seq_index = torch.LongTensor(5000).random_(0, 5000); randomized_db = []
DrawRandomSeqIndex ==
    /\ dp_pc = "draw"
    /\ \E d \in [1 .. NumUsers -> UserIdx] : random_seq_index' = Vec(d)
    /\ randomized_db' = <<>>
    /\ seq_pos' = 0
    /\ dp_pc' = "loop"
    /\ UNCHANGED <<ori_vec, i, db, seq, new_db, randomized_db_torch>>
    /\ UNCHANGED notDP

\* one iteration of: for seq in random_seq_index
LoopBody ==
    /\ dp_pc = "loop"
    /\ seq_pos < random_seq_index.shape[1]
    /\ seq' = At(random_seq_index.data, seq_pos)
    /\ new_db' = LeaveOut(ori_vec, seq')
    /\ randomized_db' = Append(randomized_db, Unsqueeze0(new_db'))
    /\ seq_pos' = seq_pos + 1
    /\ UNCHANGED <<dp_pc, ori_vec, i, db, random_seq_index, randomized_db_torch>>
    /\ UNCHANGED notDP

\* randomized_db_torch = torch.cat(randomized_db)
StackDbs ==
    /\ dp_pc = "loop"
    /\ seq_pos = random_seq_index.shape[1]
    /\ randomized_db_torch' = CatList(randomized_db)
    /\ dp_pc' = "done"
    /\ UNCHANGED <<ori_vec, i, db, random_seq_index, seq_pos, seq, new_db,
                   randomized_db>>
    /\ UNCHANGED notDP

DPNext ==
    \/ DrawOriVec
    \/ PrefixLoop
    \/ LeaveFirstOut
    \/ DrawRandomSeqIndex
    \/ LoopBody
    \/ StackDbs

SpecDP == DPInit /\ [][DPNext]_vars

\* nd is v without the record at position s, the other records in order
IsLeaveOneOut(nd, v, s) ==
    /\ nd.shape = <<NumUsers - 1>>
    /\ Len(nd.data) = NumUsers - 1
    /\ \A j \in 0 .. NumUsers - 2 :
          At(nd.data, j) = IF j < s THEN At(v.data, j) ELSE At(v.data, j + 1)

\* C1: for every drawn index seq in 0..n-1 (seq = 0 and seq = n-1 included)
\* new_db is ori_vec with exactly the record at position seq removed and the
\* order of the other records kept: new_db[j] = ori_vec[j] for j < seq and
\* new_db[j] = ori_vec[j+1] for j >= seq; the same for the cell with i = 0.
C1_LeaveOneOut ==
    /\ dp_pc \in {"draw", "loop", "done"} => IsLeaveOneOut(db, ori_vec, 0)
    /\ (dp_pc \in {"loop", "done"} /\ seq_pos > 0) =>
          /\ seq \in UserIdx
          /\ IsLeaveOneOut(new_db, ori_vec, seq)
    /\ dp_pc \in {"loop", "done"} =>
          \A k \in 1 .. Len(randomized_db) :
              IsLeaveOneOut([shape |-> <<NumUsers - 1>>, data |-> randomized_db[k].data],
                            ori_vec, random_seq_index.data[k])

\* the loop has left out the first and the last record of a vector whose
\* records are not all equal
C1_Witness ==
    /\ dp_pc = "loop"
    /\ seq_pos >= 2
    /\ seq = NumUsers - 1
    /\ \E k \in 1 .. seq_pos : random_seq_index.data[k] = 0
    /\ ori_vec.data[1] # ori_vec.data[NumUsers]
    /\ ori_vec.data[1] # ori_vec.data[2]

\* C2: from n users the construction produces exactly n databases, each of
\* size n-1, and the stacked randomized_db_torch has shape n x (n-1).
C2_Shapes ==
    /\ dp_pc = "loop" =>
          /\ Len(randomized_db) = seq_pos
          /\ \A k \in 1 .. Len(randomized_db) :
                randomized_db[k].shape = <<1, NumUsers - 1>>
    /\ dp_pc = "done" =>
          /\ Len(randomized_db) = NumUsers
          /\ \A k \in 1 .. NumUsers :
                /\ randomized_db[k].shape = <<1, NumUsers - 1>>
                /\ Len(randomized_db[k].data) = NumUsers - 1
          /\ randomized_db_torch.shape = <<NumUsers, NumUsers - 1>>
          /\ Len(randomized_db_torch.data) = NumUsers * (NumUsers - 1)

\* the stacked result exists
C2_Witness ==
    /\ dp_pc = "done"
    /\ randomized_db_torch.shape = <<NumUsers, NumUsers - 1>>

\* C3 (as claimed): the omitted indices of the n databases are pairwise
\* distinct, so every user is omitted from exactly one database.
C3_UniqueOmitted ==
    dp_pc = "done" =>
        /\ \A k1, k2 \in 1 .. NumUsers :
              k1 # k2 => random_seq_index.data[k1] # random_seq_index.data[k2]
        /\ \A u \in UserIdx :
              Cardinality({k \in 1 .. NumUsers : random_seq_index.data[k] = u}) = 1

\* ------------------------------------------------- training notebook (Part 3)
\* a rational number num/den, den > 0
Rat(n, d) == [num |-> n, den |-> d]

RatEq(p, q) == p.num * q.den = q.num * p.den

RatAdd(p, q) == Rat(p.num * q.den + q.num * p.den, p.den * q.den)

RatMul(p, q) == Rat(p.num * q.num, p.den * q.den)

RECURSIVE SumSeq(_)
SumSeq(d) == IF d = <<>> THEN 0 ELSE Head(d) + SumSeq(Tail(d))

XVals == -MaxX .. MaxX

\* the shape of x in torch.randn(2,2, requires_grad=True)
XRows == 2

XCols == 2

\* y = x**2: the elementwise power, recorded with the operation that made it
PowTensor(t, n) ==
    [shape |-> t.shape,
     data |-> [k \in 1 .. Len(t.data) |-> t.data[k] ^ n],
     grad_fn |-> [op |-> "PowBackward0", exponent |-> n, input |-> t]]

\* z = y.mean(): the mean over all elements, a scalar
MeanTensor(t) ==
    [shape |-> <<>>,
     data |-> <<Rat(SumSeq(t.data), Prod(t.shape))>>,
     grad_fn |-> [op |-> "MeanBackward1", input |-> t]]

\* PowBackward0: the incoming gradient times n * input^(n-1), elementwise
PowBackward(fn, gout) ==
    [k \in 1 .. Len(fn.input.data) |->
        RatMul(gout[k], Rat(fn.exponent * fn.input.data[k] ^ (fn.exponent - 1), 1))]

\* the mean's gradient divided by the length of a row instead of by numel
MeanBackward_PerRow(fn, gout) ==
    [k \in 1 .. Len(fn.input.data) |-> RatMul(gout[1], Rat(1, fn.input.shape[2]))]

\* MeanBackward1: the incoming gradient divided by the number of elements
MeanBackward(fn, gout) ==
    [k \in 1 .. Len(fn.input.data) |-> RatMul(gout[1], Rat(1, Prod(fn.input.shape)))]

\* z.backward() for z = mean(pow(leaf)): the chain rule from z down to the leaf
BackwardToLeaf(t) ==
    PowBackward(t.grad_fn.input.grad_fn, MeanBackward(t.grad_fn, <<Rat(1, 1)>>))

\* accumulation of a gradient g into a leaf's .grad
AccumulateGrad(old, shape, g) ==
    IF old = <<>>
    THEN <<[shape |-> shape, data |-> g]>>
    ELSE <<[shape |-> shape,
            data |-> [k \in 1 .. Len(g) |-> RatAdd(old[1].data[k], g[k])]]>>

\* x / 2, elementwise
DivTensor(t, d) ==
    [shape |-> t.shape, data |-> [k \in 1 .. Len(t.data) |-> Rat(t.data[k], d)]]

Batches == 1 .. NumBatches

\* epochs = 5
epochs == 5

\* lr of the two optimizers, in thousandths: optim.SGD(..., lr=0.01) and lr=0.003
LrSingleStep == 10

LrLoop == 3

\* nn.Sequential(...): fresh parameters, no gradient yet
NewParams == [weight |-> [steps |-> 0, last |-> {}], grad |-> <<>>]

\* zero_grad that allocates a zero gradient where there is none
ZeroGrad_Allocates(ps) == [ps EXCEPT !.grad = <<{}>>]

\* zero_grad that leaves the accumulated gradient in place
ZeroGrad_Keeps(ps) == ps

\* optimizer.zero_grad(): a gradient that exists becomes zero, None stays None
ZeroGrad(ps) == IF ps.grad = <<>> THEN ps ELSE [ps EXCEPT !.grad = <<{}>>]

\* a backward pass that also moves the weights along the gradient
Backward_MovesWeights(ps, l) ==
    [ps EXCEPT !.grad = IF ps.grad = <<>> THEN <<{l}>> ELSE <<ps.grad[1] \cup {l}>>,
               !.weight = [steps |-> ps.weight.steps + 1, last |-> {l}]]

\* loss.backward(): the loss's gradient is added to what .grad holds
Backward(ps, l) ==
    [ps EXCEPT !.grad = IF ps.grad = <<>> THEN <<{l}>> ELSE <<ps.grad[1] \cup {l}>>]

\* optimizer.step(): p -= lr * p.grad for every parameter that has a gradient
Step(ps, lr) ==
    IF ps.grad = <<>>
    THEN ps
    ELSE [ps EXCEPT !.weight = [steps |-> ps.weight.steps + 1, last |-> ps.grad[1]]]

\* next(iter(trainloader)) / the loop's next batch: batch bt, drawn as fetch k
Batch(bt, k) == [batch |-> bt, fetch |-> k, flat |-> FALSE]

\* images.view(images.shape[0], -1) / images.resize_(64, 784)
Flatten(im) == [im EXCEPT !.flat = TRUE]

\* model(images): the output of model m on the batch under its current weights
Forward(m, ps, im) ==
    [model |-> m, steps |-> ps.weight.steps, batch |-> im.batch, fetch |-> im.fetch]

\* criterion(output, labels)
Criterion(o, im) == [of |-> o, labels |-> im.fetch]

TrainInit ==
    /\ DPIdle
    /\ TensorIdle
    /\ pc = "x"
    /\ x = NoTensor
    /\ y = NoTensor
    /\ z = NoTensor
    /\ x_grad = <<>>
    /\ params = <<>>
    /\ model = 0
    /\ optimizer = NoOptimizer
    /\ images = NoBatch
    /\ output = NoOutput
    /\ loss = NoLoss
    /\ fetches = 0
    /\ e = -1
    /\ trainiter = {}
    /\ running_loss = {}
    /\ printed = <<>>

\* x = torch.randn(2,2, requires_grad=True)
CreateX ==
    /\ pc = "x"
    /\ pc' = "y"
    /\ \E d \in [1 .. XRows * XCols -> XVals] :
          x' = [shape |-> <<XRows, XCols>>, data |-> d]
    /\ x_grad' = <<>>
    /\ UNCHANGED <<y, z, params, model, optimizer, images, output, loss,
                   fetches, e, trainiter, running_loss, printed>>
    /\ UNCHANGED notTrain

\* y = x**2
PowY ==
    /\ pc = "y"
    /\ pc' = "z"
    /\ y' = PowTensor(x, 2)
    /\ UNCHANGED <<x, z, x_grad, params, model, optimizer, images, output, loss,
                   fetches, e, trainiter, running_loss, printed>>
    /\ UNCHANGED notTrain

\* z = y.mean()
MeanZ ==
    /\ pc = "z"
    /\ pc' = "zback"
    /\ z' = MeanTensor(y)
    /\ UNCHANGED <<x, y, x_grad, params, model, optimizer, images, output, loss,
                   fetches, e, trainiter, running_loss, printed>>
    /\ UNCHANGED notTrain

\* z.backward()
ZBackward ==
    /\ pc = "zback"
    /\ x_grad' = AccumulateGrad(x_grad, x.shape, BackwardToLeaf(z))
    /\ pc' = "build"
    /\ UNCHANGED <<x, y, z, params, model, optimizer, images, output, loss,
                   fetches, e, trainiter, running_loss, printed>>
    /\ UNCHANGED notTrain

\* model = nn.Sequential(...); images, labels = next(iter(trainloader)); images = images.view(...); logits = model(images); loss = criterion(logits, labels)
BuildModel ==
    /\ pc = "build"
    /\ \E bt \in Batches :
          /\ params' = Append(params, NewParams)
          /\ model' = Len(params) + 1
          /\ fetches' = fetches + 1
          /\ images' = Flatten(Batch(bt, fetches + 1))
          /\ output' = Forward(Len(params) + 1, NewParams, images')
          /\ loss' = Criterion(output', images')
    /\ pc' = "demoback"
    /\ UNCHANGED <<x, y, z, x_grad, optimizer, e, trainiter, running_loss,
                   printed>>
    /\ UNCHANGED notTrain

\* loss.backward() of the Before/After backward pass cell
DemoBackward ==
    /\ pc = "demoback"
    /\ params' = [params EXCEPT ![loss.of.model] = Backward(@, loss)]
    /\ pc' = "optim"
    /\ UNCHANGED <<x, y, z, x_grad, model, optimizer, images, output, loss,
                   fetches, e, trainiter, running_loss, printed>>
    /\ UNCHANGED notTrain

\* optimizer = optim.SGD(model.parameters(), lr=0.01)
MakeOptimizer ==
    /\ pc = "optim"
    /\ optimizer' = [params |-> model, lr |-> LrSingleStep]
    /\ pc' = "peek"
    /\ UNCHANGED <<x, y, z, x_grad, params, model, images, output, loss,
                   fetches, e, trainiter, running_loss, printed>>
    /\ UNCHANGED notTrain

\* images, labels = next(iter(trainloader)); labels[0]
PeekBatch ==
    /\ pc = "peek"
    /\ \E bt \in Batches :
          /\ fetches' = fetches + 1
          /\ images' = Batch(bt, fetches + 1)
    /\ pc' = "ss_draw"
    /\ UNCHANGED <<x, y, z, x_grad, params, model, optimizer, output, loss,
                   e, trainiter, running_loss, printed>>
    /\ UNCHANGED notTrain

\* single step: images, labels = next(iter(trainloader)); images.resize_(64, 784)
SS_Draw ==
    /\ pc = "ss_draw"
    /\ \E bt \in Batches :
          /\ fetches' = fetches + 1
          /\ images' = Flatten(Batch(bt, fetches + 1))
    /\ pc' = "ss_zero"
    /\ UNCHANGED <<x, y, z, x_grad, params, model, optimizer, output, loss,
                   e, trainiter, running_loss, printed>>
    /\ UNCHANGED notTrain

\* single step: optimizer.zero_grad()
SS_ZeroGrad ==
    /\ pc = "ss_zero"
    /\ params' = [params EXCEPT ![optimizer.params] = ZeroGrad(@)]
    /\ pc' = "ss_fwd"
    /\ UNCHANGED <<x, y, z, x_grad, model, optimizer, images, output, loss,
                   fetches, e, trainiter, running_loss, printed>>
    /\ UNCHANGED notTrain

\* single step: output = model(images)
SS_Forward ==
    /\ pc = "ss_fwd"
    /\ images.flat
    /\ output' = Forward(model, params[model], images)
    /\ pc' = "ss_loss"
    /\ UNCHANGED <<x, y, z, x_grad, params, model, optimizer, images, loss,
                   fetches, e, trainiter, running_loss, printed>>
    /\ UNCHANGED notTrain

\* single step: loss = criterion(output, labels)
SS_Loss ==
    /\ pc = "ss_loss"
    /\ loss' = Criterion(output, images)
    /\ pc' = "ss_back"
    /\ UNCHANGED <<x, y, z, x_grad, params, model, optimizer, images, output,
                   fetches, e, trainiter, running_loss, printed>>
    /\ UNCHANGED notTrain

\* single step: loss.backward()
SS_Backward ==
    /\ pc = "ss_back"
    /\ params' = [params EXCEPT ![loss.of.model] = Backward(@, loss)]
    /\ pc' = "ss_step"
    /\ UNCHANGED <<x, y, z, x_grad, model, optimizer, images, output, loss,
                   fetches, e, trainiter, running_loss, printed>>
    /\ UNCHANGED notTrain

\* single step: optimizer.step()
SS_Step ==
    /\ pc = "ss_step"
    /\ params' = [params EXCEPT ![optimizer.params] = Step(@, optimizer.lr)]
    /\ pc' = "tl_build"
    /\ UNCHANGED <<x, y, z, x_grad, model, optimizer, images, output, loss,
                   fetches, e, trainiter, running_loss, printed>>
    /\ UNCHANGED notTrain

\* training cell: model = nn.Sequential(...); optimizer = optim.SGD(model.parameters(), lr=0.003); epochs = 5
TL_Build ==
    /\ pc = "tl_build"
    /\ params' = Append(params, NewParams)
    /\ model' = Len(params) + 1
    /\ optimizer' = [params |-> Len(params) + 1, lr |-> LrLoop]
    /\ pc' = "tl_epoch"
    /\ UNCHANGED <<x, y, z, x_grad, images, output, loss, fetches, e,
                   trainiter, running_loss, printed>>
    /\ UNCHANGED notTrain

\* for e in range(epochs): running_loss = 0; for ... in trainloader starts a new pass
TL_EpochStart ==
    /\ pc = "tl_epoch"
    /\ e + 1 < epochs
    /\ e' = e + 1
    /\ running_loss' = {}
    /\ trainiter' = Batches
    /\ pc' = "tl_fetch"
    /\ UNCHANGED <<x, y, z, x_grad, params, model, optimizer, images, output,
                   loss, fetches, printed>>
    /\ UNCHANGED notTrain

\* the loader yields the next batch of the shuffled pass
TL_Fetch ==
    /\ pc = "tl_fetch"
    /\ \E bt \in trainiter :
          /\ trainiter' = trainiter \ {bt}
          /\ fetches' = fetches + 1
          /\ images' = Batch(bt, fetches + 1)
    /\ pc' = "tl_zero"
    /\ UNCHANGED <<x, y, z, x_grad, params, model, optimizer, output, loss,
                   e, running_loss, printed>>
    /\ UNCHANGED notTrain

\* loop: optimizer.zero_grad()
TL_ZeroGrad ==
    /\ pc = "tl_zero"
    /\ params' = [params EXCEPT ![optimizer.params] = ZeroGrad(@)]
    /\ pc' = "tl_fwd"
    /\ UNCHANGED <<x, y, z, x_grad, model, optimizer, images, output, loss,
                   fetches, e, trainiter, running_loss, printed>>
    /\ UNCHANGED notTrain

\* loop: images = images.view(images.shape[0], -1); out = model.forward(images)
TL_Forward ==
    /\ pc = "tl_fwd"
    /\ images' = Flatten(images)
    /\ output' = Forward(model, params[model], Flatten(images))
    /\ pc' = "tl_loss"
    /\ UNCHANGED <<x, y, z, x_grad, params, model, optimizer, loss, fetches,
                   e, trainiter, running_loss, printed>>
    /\ UNCHANGED notTrain

\* loop: loss = criterion(out, labels)
TL_Loss ==
    /\ pc = "tl_loss"
    /\ loss' = Criterion(output, images)
    /\ pc' = "tl_back"
    /\ UNCHANGED <<x, y, z, x_grad, params, model, optimizer, images, output,
                   fetches, e, trainiter, running_loss, printed>>
    /\ UNCHANGED notTrain

\* the loop's step and backward pass in the wrong order: optimizer.step()
\* runs first, loss.backward() after it
TL_Backward_AfterStep ==
    /\ pc = "tl_back"
    /\ params' = [params EXCEPT
                    ![loss.of.model] = Backward(Step(@, optimizer.lr), loss)]
    /\ pc' = "tl_acc"
    /\ UNCHANGED <<x, y, z, x_grad, model, optimizer, images, output, loss,
                   fetches, e, trainiter, running_loss, printed>>
    /\ UNCHANGED notTrain

\* loop: loss.backward()
TL_Backward ==
    /\ pc = "tl_back"
    /\ params' = [params EXCEPT ![loss.of.model] = Backward(@, loss)]
    /\ pc' = "tl_step"
    /\ UNCHANGED <<x, y, z, x_grad, model, optimizer, images, output, loss,
                   fetches, e, trainiter, running_loss, printed>>
    /\ UNCHANGED notTrain

\* loop: optimizer.step()
TL_Step ==
    /\ pc = "tl_step"
    /\ params' = [params EXCEPT ![optimizer.params] = Step(@, optimizer.lr)]
    /\ pc' = "tl_acc"
    /\ UNCHANGED <<x, y, z, x_grad, model, optimizer, images, output, loss,
                   fetches, e, trainiter, running_loss, printed>>
    /\ UNCHANGED notTrain

\* the print indented into the inner loop: a loss is printed after every batch
TL_Accumulate_Prints ==
    /\ pc = "tl_acc"
    /\ running_loss' = running_loss \cup {loss.of.fetch}
    /\ printed' = Append(printed, [sum |-> running_loss', n |-> NumBatches])
    /\ pc' = "tl_fetch"
    /\ UNCHANGED <<x, y, z, x_grad, params, model, optimizer, images, output,
                   loss, fetches, e, trainiter>>
    /\ UNCHANGED notTrain

\* loop: running_loss += loss.item()
TL_Accumulate ==
    /\ pc = "tl_acc"
    /\ running_loss' = running_loss \cup {loss.of.fetch}
    /\ pc' = "tl_fetch"
    /\ UNCHANGED <<x, y, z, x_grad, params, model, optimizer, images, output,
                   loss, fetches, e, trainiter, printed>>
    /\ UNCHANGED notTrain

\* the pass is over: print(running_loss/len(trainloader))
TL_Print ==
    /\ pc = "tl_fetch"
    /\ trainiter = {}
    /\ printed' = Append(printed, [sum |-> running_loss, n |-> NumBatches])
    /\ pc' = "tl_epoch"
    /\ UNCHANGED <<x, y, z, x_grad, params, model, optimizer, images, output,
                   loss, fetches, e, trainiter, running_loss>>
    /\ UNCHANGED notTrain

\* range(epochs) is exhausted
TL_Done ==
    /\ pc = "tl_epoch"
    /\ e + 1 >= epochs
    /\ pc' = "done"
    /\ UNCHANGED <<x, y, z, x_grad, params, model, optimizer, images, output,
                   loss, fetches, e, trainiter, running_loss, printed>>
    /\ UNCHANGED notTrain

TrainNext ==
    \/ CreateX
    \/ PowY
    \/ MeanZ
    \/ ZBackward
    \/ BuildModel
    \/ DemoBackward
    \/ MakeOptimizer
    \/ PeekBatch
    \/ SS_Draw
    \/ SS_ZeroGrad
    \/ SS_Forward
    \/ SS_Loss
    \/ SS_Backward
    \/ SS_Step
    \/ TL_Build
    \/ TL_EpochStart
    \/ TL_Fetch
    \/ TL_ZeroGrad
    \/ TL_Forward
    \/ TL_Loss
    \/ TL_Backward
    \/ TL_Step
    \/ TL_Accumulate
    \/ TL_Print
    \/ TL_Done

SpecTrain == TrainInit /\ [][TrainNext]_vars

\* the kernel runs the cells from top to bottom and every statement of a cell
\* that can run does run (every statement moves pc)
SpecTrainFair == TrainInit /\ [][TrainNext]_vars /\ WF_pc(TrainNext)

\* C4: on one batch the operations occur in the order forward pass, loss from
\* the network output, loss.backward(), optimizer.step(): a loss is computed
\* from the output of the forward pass on the current batch, a backward pass
\* runs on the loss of the current batch, and the weights of a model are
\* stepped only when the gradient of the current batch's loss has been added.
C4_Order ==
    [][/\ loss' # loss =>
            /\ loss'.of = output'
            /\ output'.fetch = images'.fetch
            /\ output'.model = model'
       /\ \A m \in 1 .. Len(params) :
            /\ params'[m].grad # params[m].grad /\ params'[m].grad # <<{}>> =>
                  /\ params'[m].grad[1] \ (IF params[m].grad = <<>> THEN {}
                                           ELSE params[m].grad[1]) = {loss}
                  /\ loss.of = output
                  /\ loss.of.fetch = images.fetch
                  /\ loss.of.model = m
                  /\ loss.of.steps = params[m].weight.steps
            /\ params'[m].weight # params[m].weight =>
                  /\ params[m].grad # <<>>
                  /\ loss \in params[m].grad[1]
                  /\ loss.of = output
                  /\ loss.of.fetch = images.fetch
                  /\ loss.of.model = m
                  /\ loss.of.steps = params[m].weight.steps
                  /\ params'[m].weight.steps = loss.of.steps + 1]_vars

\* a step of the second epoch has applied the gradient of its batch's loss
C4_Witness ==
    /\ pc = "tl_acc"
    /\ e = 1
    /\ loss \in params[model].weight.last
    /\ loss.of.fetch = images.fetch
    /\ params[model].weight.steps = loss.of.steps + 1

\* C5: between two backward passes on the same parameters zero_grad is
\* called: no gradient ever holds the contributions of two losses, and the
\* gradient optimizer.step() applies is that of the current batch's loss alone
\* (nothing of the demonstration backward pass or of an earlier batch).
C5_FreshGradient ==
    /\ \A m \in 1 .. Len(params) :
          /\ params[m].grad # <<>> => Cardinality(params[m].grad[1]) <= 1
          /\ params[m].weight.steps > 0 => Cardinality(params[m].weight.last) = 1
    /\ pc \in {"ss_step", "tl_step"} =>
          /\ params[optimizer.params].grad = <<{loss}>>
          /\ loss.of.fetch = images.fetch
          /\ loss.of.model = optimizer.params

\* the single training step is about to step on the model whose gradient the
\* demonstration backward pass had filled
C5_Witness ==
    /\ pc = "ss_step"
    /\ optimizer.params = 1
    /\ params[1].grad = <<{loss}>>
    /\ loss.of.fetch = 3

\* the training loop has not run a backward pass on its model yet
BeforeFirstLoopBackward ==
    \/ pc = "tl_epoch" /\ e = -1
    \/ /\ e = 0
       /\ running_loss = {}
       /\ \/ pc = "tl_fetch" /\ trainiter = Batches
          \/ pc \in {"tl_zero", "tl_fwd", "tl_loss", "tl_back"}

\* C8: the gradient of a tensor that requires grad (x, the parameters of the
\* demonstration model, the parameters of the loop's model) is None in every
\* state before a backward pass has run on a value computed from it, and is
\* not None after that backward pass.
C8_GradNoneUntilBackward ==
    /\ pc \in {"y", "z", "zback"} => x_grad = <<>>
    /\ pc \notin {"x", "y", "z", "zback"} => x_grad # <<>>
    /\ pc = "demoback" => params[1].grad = <<>>
    /\ pc \notin {"x", "y", "z", "zback", "build", "demoback"} => params[1].grad # <<>>
    /\ BeforeFirstLoopBackward => params[model].grad = <<>>
    /\ (pc \in {"tl_fetch", "tl_zero", "tl_fwd", "tl_loss", "tl_back", "tl_step",
                "tl_acc", "done"} \/ (pc = "tl_epoch" /\ e >= 0))
         /\ ~BeforeFirstLoopBackward => params[model].grad # <<>>

\* the loop is about to run its first backward pass: the new model has no
\* gradient although zero_grad ran, the earlier tensors have theirs
C8_Witness ==
    /\ pc = "tl_back"
    /\ e = 0
    /\ running_loss = {}
    /\ params[model].grad = <<>>
    /\ params[1].grad # <<>>
    /\ x_grad # <<>>

\* C9: for the 2x2 tensor x with y = x**2 and z = y.mean(), after
\* z.backward() the gradient x.grad equals x/2 elementwise.
C9_GradIsHalfX ==
    pc \notin {"x", "y", "z", "zback"} =>
        /\ x_grad # <<>>
        /\ x_grad[1].shape = x.shape
        /\ Len(x_grad[1].data) = XRows * XCols
        /\ \A k \in 1 .. XRows * XCols :
              RatEq(x_grad[1].data[k], DivTensor(x, 2).data[k])

\* z.backward() has run on an x with entries of both signs
C9_Witness ==
    /\ pc = "build"
    /\ x.data[1] = 1
    /\ x.data[2] = -1
    /\ x_grad # <<>>
    /\ RatEq(x_grad[1].data[2], Rat(-1, 2))

\* ------------------------------------------ tensor introduction: one neuron
\* element (r, c) of a 2-D tensor, rows and columns counted from 1
Elem(t, r, c) == t.data[(r - 1) * t.shape[2] + c]

\* row and column (from 1) of the n-th element of a tensor with c columns
RowOf(n, c) == ((n - 1) \div c) + 1

ColOf(n, c) == ((n - 1) % c) + 1

\* what an operation on tensors of incompatible shapes raises
SizeMismatch == [error |-> "size mismatch"]

IsError(t) == "error" \in DOMAIN t

\* torch.t left out: the tensor as it is
TorchT_Missing(t) == t

\* torch.t(t): the transpose of a 2-D tensor
TorchT(t) ==
    [shape |-> <<t.shape[2], t.shape[1]>>,
     data |-> [n \in 1 .. t.shape[2] * t.shape[1] |->
                  Elem(t, ColOf(n, t.shape[1]), RowOf(n, t.shape[1]))]]

\* t.reshape(r, c): the same elements in row-major order under a new shape
Reshape(t, r, c) ==
    IF r * c # Len(t.data) THEN SizeMismatch ELSE [shape |-> <<r, c>>, data |-> t.data]

\* a tensor whose elements went through exp holds symbolic values, not integers
Sym(t) == "symbolic" \in DOMAIN t

\* a tensor of shape sh with the elements dt, symbolic (s) or integer
Tensor(sh, dt, s) ==
    IF s THEN [shape |-> sh, data |-> dt, symbolic |-> TRUE]
    ELSE [shape |-> sh, data |-> dt]

\* p * q and p + q on elements: computed on integers, kept as a term otherwise
Times(p, q, s) == IF s THEN [times |-> <<p, q>>] ELSE p * q

Plus(p, q, s) == IF s THEN [plus |-> <<p, q>>] ELSE p + q

RECURSIVE DotFrom(_, _, _, _, _)
DotFrom(m1, m2, r, c, k) ==
    IF k > m1.shape[2] THEN 0
    ELSE Plus(Times(Elem(m1, r, k), Elem(m2, k, c), Sym(m1) \/ Sym(m2)),
              DotFrom(m1, m2, r, c, k + 1), Sym(m1) \/ Sym(m2))

\* the product of m1 (r x k) and m2 (k x c): rows of m1 by columns of m2
MMData(m1, m2) ==
    Tensor(<<m1.shape[1], m2.shape[2]>>,
           [n \in 1 .. m1.shape[1] * m2.shape[2] |->
               DotFrom(m1, m2, RowOf(n, m2.shape[2]), ColOf(n, m2.shape[2]), 1)],
           Sym(m1) \/ Sym(m2))

\* mm that takes a second operand of the first one's shape as its transpose
\* instead of raising
MM_ImplicitTranspose(m1, m2) ==
    IF IsError(m1) \/ IsError(m2) THEN SizeMismatch
    ELSE IF m1.shape[2] = m2.shape[1] THEN MMData(m1, m2)
    ELSE IF m1.shape[2] = m2.shape[2] THEN MMData(m1, TorchT(m2))
    ELSE SizeMismatch

\* torch.mm(m1, m2): the columns of m1 must be as many as the rows of m2
MM(m1, m2) ==
    IF IsError(m1) \/ IsError(m2) THEN SizeMismatch
    ELSE IF m1.shape[2] # m2.shape[1] THEN SizeMismatch
    ELSE MMData(m1, m2)

\* element (r, c) of t broadcast to a larger shape
BElem(t, r, c) ==
    Elem(t, IF t.shape[1] = 1 THEN 1 ELSE r, IF t.shape[2] = 1 THEN 1 ELSE c)

\* t1 + t2 on 2-D tensors, with broadcasting of dimensions of size 1
AddT(t1, t2) ==
    IF IsError(t1) \/ IsError(t2) THEN SizeMismatch
    ELSE IF \E d \in 1 .. 2 :
               t1.shape[d] # t2.shape[d] /\ t1.shape[d] # 1 /\ t2.shape[d] # 1
    THEN SizeMismatch
    ELSE LET rows == Max(t1.shape[1], t2.shape[1])
             cols == Max(t1.shape[2], t2.shape[2])
         IN  Tensor(<<rows, cols>>,
                    [n \in 1 .. rows * cols |->
                        Plus(BElem(t1, RowOf(n, cols), ColOf(n, cols)),
                             BElem(t2, RowOf(n, cols), ColOf(n, cols)),
                             Sym(t1) \/ Sym(t2))],
                    Sym(t1) \/ Sym(t2))

\* 1/(1+torch.exp(-x)), elementwise: the argument of exp is computed, exp and
\* the division are the framework's and stay symbolic
activation(t) ==
    IF IsError(t) THEN t
    ELSE Tensor(t.shape,
                [n \in 1 .. Len(t.data) |->
                    [one_over_one_plus_exp_of |->
                        IF Sym(t) THEN [minus |-> t.data[n]] ELSE 0 - t.data[n]]],
                TRUE)

\* features = torch.randn((1, 5)): five features
NumFeatures == 5

TensorVals == -1 .. MaxVal

NeuronInit ==
    /\ DPIdle
    /\ TrainIdle
    /\ t_pc = "data"
    /\ features = None
    /\ weights = None
    /\ bias = None
    /\ h = None
    /\ f_h = None
    /\ Out = <<>>
    /\ mem = <<>>
    /\ a = None
    /\ b = None
    /\ raised = <<>>
    /\ n_input = None
    /\ n_hidden = None
    /\ n_output = None
    /\ W1 = None
    /\ W2 = None
    /\ B1 = None
    /\ B2 = None
    /\ out = None
    /\ out_h = None

\* features = torch.randn((1, 5)); weights = torch.randn_like(features);
\* bias = torch.randn((1, 1))
GenerateData ==
    /\ t_pc = "data"
    /\ \E fd \in [1 .. NumFeatures -> TensorVals] :
          /\ features' = [shape |-> <<1, NumFeatures>>, data |-> fd]
          /\ \E wd \in [1 .. Len(fd) -> TensorVals] :
                weights' = [shape |-> features'.shape, data |-> wd]
    /\ \E bd \in TensorVals : bias' = [shape |-> <<1, 1>>, data |-> <<bd>>]
    /\ t_pc' = "with_t"
    /\ UNCHANGED <<h, f_h, Out, mem, a, b>>
    /\ UNCHANGED <<raised, mlpVars>>
    /\ UNCHANGED notTensor

\* a cell "h = <value>; f_h = activation(h); f_h": an error ends the cell
\* before anything is bound or displayed
NeuronCell(value, from, to) ==
    /\ t_pc = from
    /\ IF IsError(value)
       THEN /\ raised' = Append(raised, value)
            /\ UNCHANGED <<h, f_h, Out>>
       ELSE /\ h' = value
            /\ f_h' = activation(value)
            /\ Out' = Append(Out, activation(value))
            /\ UNCHANGED raised
    /\ t_pc' = to
    /\ UNCHANGED <<features, weights, bias, mem, a, b>>
    /\ UNCHANGED mlpVars
    /\ UNCHANGED notTensor

\* h = torch.mm(features, torch.t(weights)) + bias; f_h = activation(h); f_h
NeuronWithT ==
    NeuronCell(AddT(MM(features, TorchT(weights)), bias), "with_t", "mm_plain")

\* a cell that only displays <value>: an error ends it with nothing displayed
DisplayCell(value, from, to) ==
    /\ t_pc = from
    /\ IF IsError(value)
       THEN /\ raised' = Append(raised, value)
            /\ UNCHANGED Out
       ELSE /\ Out' = Append(Out, value)
            /\ UNCHANGED raised
    /\ t_pc' = to
    /\ UNCHANGED <<features, weights, bias, h, f_h, mem, a, b>>
    /\ UNCHANGED mlpVars
    /\ UNCHANGED notTensor

\* >> torch.mm(features, weights)
MMPlain == DisplayCell(MM(features, weights), "mm_plain", "with_reshape")

\* h = torch.mm(features, weights.reshape(5, 1)) + bias; f_h = activation(h); f_h
NeuronWithReshape ==
    NeuronCell(AddT(MM(features, Reshape(weights, NumFeatures, 1)), bias),
               "with_reshape", "neuron_done")

NeuronNext ==
    \/ GenerateData
    \/ NeuronWithT
    \/ MMPlain
    \/ NeuronWithReshape

SpecNeuron == NeuronInit /\ [][NeuronNext]_vars

RECURSIVE WeightedSum(_, _, _)
WeightedSum(fd, wd, k) ==
    IF k > Len(fd) THEN 0 ELSE fd[k] * wd[k] + WeightedSum(fd, wd, k + 1)

\* C10: the two computations of the single-neuron output give the same result
\* for every 1x5 features, 1x5 weights and 1x1 bias: both displayed values are
\* the 1x1 tensor activation(sum_i features_i * weights_i + bias).
C10_SameNeuronOutput ==
    /\ t_pc \in {"with_reshape", "neuron_done"} =>
          /\ Len(Out) >= 1
          /\ Out[1].shape = <<1, 1>>
          /\ Out[1].data =
                <<[one_over_one_plus_exp_of |->
                      0 - (WeightedSum(features.data, weights.data, 1) + bias.data[1])]>>
          /\ f_h = Out[Len(Out)]
    /\ t_pc = "neuron_done" =>
          /\ Len(Out) = 2
          /\ Out[2] = Out[1]

\* both cells have displayed their value for data with a non-zero weighted sum
C10_Witness ==
    /\ t_pc = "neuron_done"
    /\ Len(Out) = 2
    /\ features.data[1] # features.data[2]
    /\ weights.data[1] # weights.data[2]
    /\ WeightedSum(features.data, weights.data, 1) # 0

\* the operands the single-neuron section multiplies or could multiply
Operands ==
    {features, weights, bias, TorchT(weights), Reshape(weights, NumFeatures, 1)}

ARows == 4

ACols == 3

AVals == 0 .. MaxA

\* the value an array or tensor reference r shows: its shape and its buffer
Read(m, r) == [shape |-> r.shape, data |-> m[r.buf]]

\* torch.tensor(arr): a tensor with a buffer of its own, holding a copy
TorchTensor(m, arr) ==
    [mem |-> Append(m, m[arr.buf]),
     ref |-> [buf |-> Len(m) + 1, shape |-> arr.shape, kind |-> "tensor"]]

\* from_numpy that copies the data as torch.tensor does
FromNumpy_Copies(m, arr) == TorchTensor(m, arr)

\* torch.from_numpy(arr): a tensor on the array's own buffer
FromNumpy(m, arr) ==
    [mem |-> m, ref |-> [buf |-> arr.buf, shape |-> arr.shape, kind |-> "tensor"]]

\* numpy() that hands the buffer back as a flat array
ToNumpy_Flat(t) == [buf |-> t.buf, shape |-> <<Prod(t.shape)>>, kind |-> "ndarray"]

\* t.numpy(): an array on the tensor's own buffer
ToNumpy(t) == [buf |-> t.buf, shape |-> t.shape, kind |-> "ndarray"]

\* t.mul_(c): every element of t's buffer multiplied in place
MulInPlace(m, t, c) ==
    [m EXCEPT ![t.buf] = [k \in 1 .. Len(@) |-> @[k] * c]]

NumpyInit ==
    /\ DPIdle
    /\ TrainIdle
    /\ t_pc = "np_a"
    /\ features = None
    /\ weights = None
    /\ bias = None
    /\ h = None
    /\ f_h = None
    /\ Out = <<>>
    /\ mem = <<>>
    /\ a = None
    /\ b = None
    /\ raised = <<>>
    /\ n_input = None
    /\ n_hidden = None
    /\ n_output = None
    /\ W1 = None
    /\ W2 = None
    /\ B1 = None
    /\ B2 = None
    /\ out = None
    /\ out_h = None

\* a = np.random.rand(4,3); a
NpRandA ==
    /\ t_pc = "np_a"
    /\ \E d \in [1 .. ARows * ACols -> AVals] : mem' = Append(mem, d)
    /\ a' = [buf |-> Len(mem) + 1, shape |-> <<ARows, ACols>>, kind |-> "ndarray"]
    /\ Out' = Append(Out, a')
    /\ t_pc' = "np_tensor"
    /\ UNCHANGED <<features, weights, bias, h, f_h, b>>
    /\ UNCHANGED <<raised, mlpVars>>
    /\ UNCHANGED notTensor

\* torch.tensor(a)
TorchTensorA ==
    /\ t_pc = "np_tensor"
    /\ mem' = TorchTensor(mem, a).mem
    /\ Out' = Append(Out, TorchTensor(mem, a).ref)
    /\ t_pc' = "np_from"
    /\ UNCHANGED <<features, weights, bias, h, f_h, a, b>>
    /\ UNCHANGED <<raised, mlpVars>>
    /\ UNCHANGED notTensor

\* b = torch.from_numpy(a); b
FromNumpyA ==
    /\ t_pc = "np_from"
    /\ mem' = FromNumpy(mem, a).mem
    /\ b' = FromNumpy(mem, a).ref
    /\ Out' = Append(Out, b')
    /\ t_pc' = "np_back"
    /\ UNCHANGED <<features, weights, bias, h, f_h, a>>
    /\ UNCHANGED <<raised, mlpVars>>
    /\ UNCHANGED notTensor

\* b.numpy()
BackToNumpy ==
    /\ t_pc = "np_back"
    /\ Out' = Append(Out, ToNumpy(b))
    /\ t_pc' = "np_mul"
    /\ UNCHANGED <<features, weights, bias, h, f_h, mem, a, b>>
    /\ UNCHANGED <<raised, mlpVars>>
    /\ UNCHANGED notTensor

\* b.mul_(2)
MulB ==
    /\ t_pc = "np_mul"
    /\ mem' = MulInPlace(mem, b, 2)
    /\ Out' = Append(Out, b)
    /\ t_pc' = "np_show"
    /\ UNCHANGED <<features, weights, bias, h, f_h, a, b>>
    /\ UNCHANGED <<raised, mlpVars>>
    /\ UNCHANGED notTensor

\* a
ShowA ==
    /\ t_pc = "np_show"
    /\ Out' = Append(Out, a)
    /\ t_pc' = "np_done"
    /\ UNCHANGED <<features, weights, bias, h, f_h, mem, a, b>>
    /\ UNCHANGED <<raised, mlpVars>>
    /\ UNCHANGED notTensor

NumpyNext ==
    \/ NpRandA
    \/ TorchTensorA
    \/ FromNumpyA
    \/ BackToNumpy
    \/ MulB
    \/ ShowA

SpecNumpy == NumpyInit /\ [][NumpyNext]_vars

\* C7: after b = torch.from_numpy(a) the array a and the tensor b share their
\* memory: a and b are elementwise equal after every operation, and after
\* b.mul_(2) the array a holds the doubled values too (twice what the copy
\* made by torch.tensor(a) before the change still holds).
C7_SharedMemory ==
    /\ t_pc \in {"np_back", "np_mul", "np_show", "np_done"} =>
          /\ Read(mem, a).shape = Read(mem, b).shape
          /\ \A k \in 1 .. ARows * ACols : Read(mem, a).data[k] = Read(mem, b).data[k]
    /\ t_pc \in {"np_show", "np_done"} =>
          \A k \in 1 .. ARows * ACols :
              /\ Read(mem, a).data[k] = 2 * Read(mem, Out[2]).data[k]
              /\ Read(mem, b).data[k] = 2 * Read(mem, Out[2]).data[k]

\* b.mul_(2) has changed an array that was not all zero
C7_Witness ==
    /\ t_pc = "np_show"
    /\ \E k \in 1 .. ARows * ACols :
          /\ Read(mem, Out[2]).data[k] = 1
          /\ Read(mem, a).data[k] = 2
          /\ Read(mem, b).data[k] = 2

BeforeSingleStep == {"ss_draw", "ss_zero", "ss_fwd", "ss_loss", "ss_back"}

\* C14: in the single training step the weights change only at
\* optimizer.step(): drawing the batch, optimizer.zero_grad(), the forward
\* pass, the loss and loss.backward() leave the weights of every model as
\* they are, equal to the initial weights the cell printed, and
\* loss.backward() writes the gradient of the loss's model and nothing else;
\* within the single step only optimizer.step() can move a weight.
C14_WeightsOnlyAtStep ==
    [][/\ pc \in BeforeSingleStep =>
            /\ Len(params') = Len(params)
            /\ \A m \in 1 .. Len(params) :
                  /\ params[m].weight = NewParams.weight
                  /\ params'[m].weight = params[m].weight
       /\ pc = "ss_back" =>
            /\ params'[loss.of.model].grad # params[loss.of.model].grad
            /\ \A m \in 1 .. Len(params) :
                  m # loss.of.model => params'[m] = params[m]
            /\ UNCHANGED <<x, y, z, x_grad, model, optimizer, images, output,
                           loss, fetches, e, trainiter, running_loss, printed>>
       /\ (/\ pc \in BeforeSingleStep \cup {"ss_step"}
           /\ \E m \in 1 .. Len(params) : params'[m].weight # params[m].weight) =>
            /\ pc = "ss_step"
            /\ pc' = "tl_build"
            /\ \A m \in 1 .. Len(params) :
                  params'[m].weight # params[m].weight => m = optimizer.params]_vars

\* the single step is over: the backward pass has left its loss as the
\* gradient and optimizer.step() has moved the weights once
C14_Witness ==
    /\ pc = "tl_build"
    /\ params[optimizer.params].grad = <<{loss}>>
    /\ params[optimizer.params].weight.steps = 1
    /\ params[optimizer.params].weight.last = {loss}
    /\ params[optimizer.params].weight # NewParams.weight

\* the positions inside the body of the inner loop of the training cell
InPass == {"tl_fetch", "tl_zero", "tl_fwd", "tl_loss", "tl_back", "tl_step", "tl_acc"}

\* the batches the loader has yielded in the current pass
Visited == Batches \ trainiter

\* the counts of the training loop at each of its positions: e passes are
\* over and printed, the current pass has stepped once for every batch it has
\* finished, and at the end epochs passes are over
LoopCounts ==
    /\ pc \in InPass =>
          /\ e \in 0 .. epochs - 1
          /\ Len(printed) = e
          /\ Cardinality(running_loss) =
                Cardinality(Visited) - (IF pc = "tl_fetch" THEN 0 ELSE 1)
          /\ pc # "tl_fetch" => images.batch \in Visited
          /\ params[optimizer.params].weight.steps =
                e * NumBatches + Cardinality(running_loss)
                   + (IF pc = "tl_acc" THEN 1 ELSE 0)
    /\ pc \in {"tl_epoch", "done"} =>
          /\ Len(printed) = e + 1
          /\ params[optimizer.params].weight.steps = (e + 1) * NumBatches
          /\ e >= 0 => trainiter = {}
    /\ pc = "done" =>
          /\ e + 1 = epochs
          /\ Len(printed) = epochs
          /\ params[optimizer.params].weight.steps = epochs * NumBatches
          /\ \A k \in 1 .. epochs :
                /\ Cardinality(printed[k].sum) = NumBatches
                /\ printed[k].n = NumBatches
                /\ \A k2 \in 1 .. epochs :
                      k2 # k => printed[k].sum \cap printed[k2].sum = {}

\* what one step of the training loop does to the pass: the loader yields a
\* batch it has not yielded in this pass, a loss is printed only when every
\* batch of the pass has been visited and stepped on, and the weights are
\* stepped only on the batch just visited, once
LoopSteps ==
    /\ (pc = "tl_fetch" /\ images' # images) =>
          /\ images'.batch \in trainiter
          /\ trainiter' = trainiter \ {images'.batch}
    /\ printed' # printed =>
          /\ Visited = Batches
          /\ Cardinality(running_loss) = NumBatches
          /\ printed' = Append(printed, [sum |-> running_loss, n |-> NumBatches])
    /\ (pc \in InPass /\ params' # params /\ params'[model].weight # params[model].weight) =>
          /\ pc = "tl_step"
          /\ params'[model].weight.steps = params[model].weight.steps + 1
          /\ loss.of.fetch \notin running_loss
          /\ loss.of.batch = images.batch

\* C13: the training loop terminates; it runs exactly epochs passes, each
\* pass visits every batch of trainloader exactly once, optimizer.step() is
\* called exactly once per batch (epochs * len(trainloader) times in total)
\* and exactly one loss is printed per epoch.
C13_LoopTerminates ==
    /\ <>(pc = "done")
    /\ []LoopCounts
    /\ [][LoopSteps]_<<pc, images, trainiter, params, printed>>

\* the loop is over after epochs passes of len(trainloader) steps each
C13_Witness ==
    /\ pc = "done"
    /\ Len(printed) = epochs
    /\ params[model].weight.steps = epochs * NumBatches
    /\ Cardinality(UNION {printed[k].sum : k \in 1 .. epochs}) = epochs * NumBatches

\* ------------------------------ tensor introduction: the multi-layer network
\* features = torch.randn((1, 3)): three features
MLPFeatures == 3

\* n_hidden = 2
NHidden == 2

\* n_output = 1
NOutput == 1

\* the sample values the weights and biases of the network are drawn from
MLPWeightVals == {-1, 1}

\* torch.randn(r, c) / torch.randn((r, c)): the r x c tensors over vals
Randn(r, c, vals) == {[shape |-> <<r, c>>, data |-> d] : d \in [1 .. r * c -> vals]}

\* the number of input units taken from the number of rows of the features
NInput_Rows(t) == t.shape[1]

\* features.shape[1]: the size of the second dimension
NInput(t) == t.shape[2]

\* what a cell raises when it reads a name an earlier cell failed to bind
NameError == [error |-> "name is not defined"]

\* the value of a name in an expression: reading an unbound name raises
Name(t) == IF t = NoTensor THEN NameError ELSE t

\* a fresh kernel: torch is imported and activation is defined, nothing else
MLPInit ==
    /\ DPIdle
    /\ TrainIdle
    /\ t_pc = "mlp_data"
    /\ features = NoTensor
    /\ weights = None
    /\ bias = None
    /\ h = NoTensor
    /\ f_h = NoTensor
    /\ Out = <<>>
    /\ mem = <<>>
    /\ a = None
    /\ b = None
    /\ raised = <<>>
    /\ n_input = None
    /\ n_hidden = None
    /\ n_output = None
    /\ W1 = NoTensor
    /\ W2 = NoTensor
    /\ B1 = NoTensor
    /\ B2 = NoTensor
    /\ out = NoTensor
    /\ out_h = NoTensor

\* features = torch.randn((1, 3)); n_input = features.shape[1]; n_hidden = 2;
\* n_output = 1; W1 = torch.randn(n_input, n_hidden);
\* W2 = torch.randn(n_hidden, n_output); B1 = torch.randn((1, n_hidden));
\* B2 = torch.randn((1, n_output))
MLPData ==
    /\ t_pc = "mlp_data"
    /\ t_pc' = "mlp_shape"
    /\ features' \in Randn(1, MLPFeatures, TensorVals)
    /\ n_input' = NInput(features')
    /\ n_hidden' = NHidden
    /\ n_output' = NOutput
    /\ W1' \in Randn(n_input', n_hidden', MLPWeightVals)
    /\ W2' \in Randn(n_hidden', n_output', MLPWeightVals)
    /\ B1' \in Randn(1, n_hidden', MLPWeightVals)
    /\ B2' \in Randn(1, n_output', MLPWeightVals)
    /\ UNCHANGED <<weights, bias, h, f_h, Out, mem, a, b, raised, out, out_h>>
    /\ UNCHANGED notTensor

\* >> features.shape[1]
MLPShowShape ==
    /\ t_pc = "mlp_shape"
    /\ t_pc' = "mlp_hidden"
    /\ Out' = Append(Out, features.shape[2])
    /\ UNCHANGED <<features, weights, bias, h, f_h, mem, a, b, raised>>
    /\ UNCHANGED mlpVars
    /\ UNCHANGED notTensor

\* h = torch.mm(features, W1) + B1; f_h = activation(h)
MLPHidden ==
    /\ t_pc = "mlp_hidden"
    /\ t_pc' = "mlp_output"
    /\ IF IsError(AddT(MM(features, W1), B1))
       THEN /\ raised' = Append(raised, AddT(MM(features, W1), B1))
            /\ UNCHANGED <<h, f_h>>
       ELSE /\ h' = AddT(MM(features, W1), B1)
            /\ f_h' = activation(h')
            /\ UNCHANGED raised
    /\ UNCHANGED <<features, weights, bias, Out, mem, a, b>>
    /\ UNCHANGED mlpVars
    /\ UNCHANGED notTensor

\* out = h = torch.mm(f_h, W2) + B2; out_h = activation(out)
MLPOutput ==
    /\ t_pc = "mlp_output"
    /\ t_pc' = "mlp_show"
    /\ IF IsError(AddT(MM(Name(f_h), W2), B2))
       THEN /\ raised' = Append(raised, AddT(MM(Name(f_h), W2), B2))
            /\ UNCHANGED <<h, out, out_h>>
       ELSE /\ out' = AddT(MM(f_h, W2), B2)
            /\ h' = out'
            /\ out_h' = activation(out')
            /\ UNCHANGED raised
    /\ UNCHANGED <<features, weights, bias, f_h, Out, mem, a, b>>
    /\ UNCHANGED <<n_input, n_hidden, n_output, W1, W2, B1, B2>>
    /\ UNCHANGED notTensor

\* >> out_h
MLPShowOut ==
    /\ t_pc = "mlp_show"
    /\ t_pc' = "mlp_done"
    /\ IF IsError(Name(out_h))
       THEN /\ raised' = Append(raised, Name(out_h))
            /\ UNCHANGED Out
       ELSE /\ Out' = Append(Out, out_h)
            /\ UNCHANGED raised
    /\ UNCHANGED <<features, weights, bias, h, f_h, mem, a, b>>
    /\ UNCHANGED mlpVars
    /\ UNCHANGED notTensor

MLPNext ==
    \/ MLPData
    \/ MLPShowShape
    \/ MLPHidden
    \/ MLPOutput
    \/ MLPShowOut

SpecMLP == MLPInit /\ [][MLPNext]_vars

\* C15: in the multi-layer network the number of input units is the number of
\* input features (n_input = features.shape[1] = 3); W1 is n_input x n_hidden,
\* B1 1 x n_hidden, W2 n_hidden x n_output and B2 1 x n_output; every matrix
\* multiplication and addition of the two layers is shape-compatible (no cell
\* raises), the hidden layer is 1 x n_hidden and the network output out_h has
\* shape 1 x n_output, that is 1x1.
C15_MLPShapes ==
    /\ raised = <<>>
    /\ t_pc # "mlp_data" =>
          /\ n_input = features.shape[2]
          /\ n_input = MLPFeatures
          /\ features.shape = <<1, n_input>>
          /\ W1.shape = <<n_input, n_hidden>>
          /\ B1.shape = <<1, n_hidden>>
          /\ W2.shape = <<n_hidden, n_output>>
          /\ B2.shape = <<1, n_output>>
          /\ ~IsError(MM(features, W1))
          /\ MM(features, W1).shape = <<1, n_hidden>>
          /\ ~IsError(AddT(MM(features, W1), B1))
          /\ AddT(MM(features, W1), B1).shape = B1.shape
    /\ t_pc \in {"mlp_output", "mlp_show", "mlp_done"} =>
          /\ f_h.shape = <<1, n_hidden>>
          /\ Len(f_h.data) = n_hidden
          /\ ~IsError(MM(f_h, W2))
          /\ MM(f_h, W2).shape = <<1, n_output>>
          /\ ~IsError(AddT(MM(f_h, W2), B2))
    /\ t_pc = "mlp_output" => h.shape = <<1, n_hidden>>
    /\ t_pc \in {"mlp_show", "mlp_done"} =>
          /\ out.shape = <<1, n_output>>
          /\ h = out
          /\ out_h.shape = <<1, n_output>>
          /\ out_h.shape = <<1, 1>>
          /\ Len(out_h.data) = 1
    /\ t_pc \in {"mlp_hidden", "mlp_output", "mlp_show"} => Out = <<MLPFeatures>>
    /\ t_pc = "mlp_done" => Out = <<MLPFeatures, out_h>>

\* the network has computed and displayed its 1x1 output for features that differ
C15_Witness ==
    /\ t_pc = "mlp_done"
    /\ raised = <<>>
    /\ Len(Out) = 2
    /\ Out[2].shape = <<1, 1>>
    /\ features.data[1] # features.data[2]
    /\ W1.data[1] # W1.data[2]

====
